---- MODULE Spec2Model ----
(***************************************************************************)
(* local-pvc-cleaner: a controller that deletes the PersistentVolumeClaims,*)
(* PersistentVolumes and Pods anchored to a node once the node is gone.    *)
(* Two variants of the program are modelled: the indexed one (main.go:     *)
(* informer indices, deleteVolumes, a startup pass) and the PV-scan one    *)
(* (unnamed/part_000: cleanupPVCsForNode lists the PVs of the cluster).    *)
(***************************************************************************)
EXTENDS Naturals, Sequences, FiniteSets

(***************************************************************************)
(* Bounds of the model.                                                    *)
(***************************************************************************)
\* volume entries of a pod drawn for pod notifications
MaxVolumes == 2
\* node create/delete operations the cluster performs while the controller runs
MaxNodeOps == 3
\* delete/list calls that fail although the object exists (transient errors)
MaxFailures == 1

(***************************************************************************)
(* The universe of objects.                                                *)
(***************************************************************************)
expectedProvisionerValue == "rancher.io/local-path"
OtherProvisioner == "other-provisioner"
\* "" stands for an annotation that is absent: a Go map miss reads as ""
ProvisionerValues == {expectedProvisionerValue, OtherProvisioner, ""}

Nodes == {"n1", "n2"}
\* the nodes the cluster deletes and creates again while the controller runs
ChurnNodes == {"n1"}
NodeKeys == Nodes \cup {""}
Namespaces == {"a", "b"}
ClaimNames == {"c1", "c2"}
ClaimKeys == ClaimNames \cup {""}
Threads == {"main", "handler"}

Key(obj) == <<obj.ns, obj.name>>
Keys(store) == {Key(o) : o \in store}
Range(s) == {s[i] : i \in 1..Len(s)}

\* a PVC: identity (ns, name), the two annotations, Spec.VolumeName
PVC(ns, name, prov, node, vol) ==
  [ns |-> ns, name |-> name, prov |-> prov, node |-> node, vol |-> vol]
NoPVC == PVC("", "", "", "", "")
\* a PV: cluster-scoped name (its namespace is ""), the two annotations,
\* Spec.ClaimRef (nil or ns/name)
PV(name, prov, node, hasRef, refNs, refName) ==
  [ns |-> "", name |-> name, prov |-> prov, node |-> node,
   hasRef |-> hasRef, refNs |-> refNs, refName |-> refName]
\* a volume entry of a pod: PersistentVolumeClaim nil or not, and its ClaimName
Volume(pvc, claimName) == [pvc |-> pvc, claimName |-> claimName]
VolumeEntries ==
  {Volume(FALSE, "")} \cup {Volume(TRUE, c) : c \in ClaimKeys}
Pod(ns, name, volumes) == [ns |-> ns, name |-> name, volumes |-> volumes]

SeqsUpTo(S, n) == UNION {[1..k -> S] : k \in 0..n}

\* the informers of the factory; Start runs those the program asked for before it:
\* main.go the three of them, part_000 the node informer only
Kinds == {"node", "pvc", "pod"}
StartedKinds(v) == IF v = "indexed" THEN Kinds ELSE {"node"}
NotListed == [listed |-> FALSE, queue |-> {}]
ListDone == [listed |-> TRUE, queue |-> {}]
\* the informers once each started one has taken its initial list into its store
SyncedInformers(v) == [k \in Kinds |-> IF k \in StartedKinds(v) THEN ListDone ELSE NotListed]

VARIABLES
  variant,    \* "indexed" (main.go) or "pvscan" (unnamed/part_000)
  informer,   \* per informer: whether its initial list is made, and what of it
              \* has not reached the store yet
  apiNodes,   \* the cluster: names of the nodes that exist
  apiPVC,     \* the cluster: the PVCs
  apiPV,      \* the cluster: the PVs
  apiPod,     \* the cluster: the pods
  nodeWatch,  \* node events the cluster has emitted and the informer has not seen
  nodeStore,  \* node informer's store
  pending,    \* deleted nodes whose DeleteFunc has not run yet
  pvcStore,   \* PVC informer's store
  pvcIndex,   \* its pvcByNode index: index value -> keys
  podStore,   \* pod informer's store
  podIndex,   \* its podByPvc index: index value -> keys
  pc,         \* per thread: where it is
  todo,       \* per thread: the PVCs its loop has not visited yet
  cur,        \* per thread: the pvc argument of the running deleteVolumes
  pods,       \* per thread: the pods its pod loop has not visited yet
  pvTodo,     \* PV-scan: the PVs the loop has not visited yet
  log,        \* per thread: the delete calls it issued, in order
  inv,        \* the node-delete callbacks started so far
  listed,     \* the lookups on podByPvc done so far
  scanned,    \* the stores as the startup pass found them
  nodeOps,    \* node operations the cluster performed
  failures,   \* transient failures so far
  alive       \* the process has not panicked

indexVars == <<pvcStore, pvcIndex, podStore, podIndex>>
apiVars == <<apiNodes, apiPVC, apiPV, apiPod>>
nodeVars == <<nodeWatch, nodeStore, pending>>
threadVars == <<pc, todo, cur, pods, pvTodo, log, inv, listed, scanned>>
envVars == <<nodeOps, failures>>
vars == <<variant, informer, apiVars, nodeVars, indexVars, threadVars, envVars, alive>>

(***************************************************************************)
(* The index functions the program registers (main.go AddIndexers).        *)
(***************************************************************************)
\* pvcByNodeIndex: no key for a PVC of another provisioner, else its selected node
pvcByNodeIndexFuncNoFilter(pvc) == <<pvc.node>>
pvcByNodeIndexFunc(pvc) ==
  IF pvc.prov # expectedProvisionerValue THEN <<>> ELSE <<pvc.node>>

RECURSIVE claimsOfVolumes(_)
claimsOfVolumes(volumes) ==
  IF volumes = <<>> THEN <<>>
  ELSE LET volume == Head(volumes)
           rest == claimsOfVolumes(Tail(volumes))
       IN IF ~volume.pvc THEN rest
          ELSE IF volume.claimName = "" THEN rest
          ELSE <<volume.claimName>> \o rest

\* the same loop leaving at the first volume that is no claim
RECURSIVE claimsUntilNonClaim(_)
claimsUntilNonClaim(volumes) ==
  IF volumes = <<>> THEN <<>>
  ELSE LET volume == Head(volumes)
       IN IF ~volume.pvc THEN <<>>
          ELSE IF volume.claimName = "" THEN <<>>
          ELSE <<volume.claimName>> \o claimsUntilNonClaim(Tail(volumes))

podByPvcIndexFuncBreak(pod) == claimsUntilNonClaim(pod.volumes)
\* podByPvcIndex: the non-empty claim names of the pod's volumes, in order
podByPvcIndexFunc(pod) == claimsOfVolumes(pod.volumes)

(***************************************************************************)
(* The informer's thread-safe store: every add, update and delete of an    *)
(* object re-keys it in the index (old index values out, new ones in), and *)
(* ByIndex returns the stored objects whose keys the index holds.          *)
(***************************************************************************)
UpdateIndex(index, key, oldValues, newValues) ==
  [v \in DOMAIN index |->
     IF v \in newValues THEN index[v] \cup {key}
     ELSE IF v \in oldValues THEN index[v] \ {key}
     ELSE index[v]]

ByIndex(store, index, value) == {o \in store : Key(o) \in index[value]}

PVCStoreAdd(obj) ==
  /\ Key(obj) \notin Keys(pvcStore)
  /\ pvcStore' = pvcStore \cup {obj}
  /\ pvcIndex' = UpdateIndex(pvcIndex, Key(obj), {}, Range(pvcByNodeIndexFunc(obj)))

PVCStoreUpdate(old, new) ==
  /\ old \in pvcStore
  /\ Key(new) = Key(old)
  /\ new # old
  /\ pvcStore' = (pvcStore \ {old}) \cup {new}
  /\ pvcIndex' = UpdateIndex(pvcIndex, Key(old), Range(pvcByNodeIndexFunc(old)),
                             Range(pvcByNodeIndexFunc(new)))

PVCStoreDelete(old) ==
  /\ old \in pvcStore
  /\ pvcStore' = pvcStore \ {old}
  /\ pvcIndex' = UpdateIndex(pvcIndex, Key(old), Range(pvcByNodeIndexFunc(old)), {})

PodStoreAdd(obj) ==
  /\ Key(obj) \notin Keys(podStore)
  /\ podStore' = podStore \cup {obj}
  /\ podIndex' = UpdateIndex(podIndex, Key(obj), {}, Range(podByPvcIndexFunc(obj)))

PodStoreUpdate(old, new) ==
  /\ old \in podStore
  /\ Key(new) = Key(old)
  /\ new # old
  /\ podStore' = (podStore \ {old}) \cup {new}
  /\ podIndex' = UpdateIndex(podIndex, Key(old), Range(podByPvcIndexFunc(old)),
                             Range(podByPvcIndexFunc(new)))

PodStoreDelete(old) ==
  /\ old \in podStore
  /\ podStore' = podStore \ {old}
  /\ podIndex' = UpdateIndex(podIndex, Key(old), Range(podByPvcIndexFunc(old)), {})

EmptyIndex(values) == [v \in values |-> {}]

\* the indices of a store that took each of its objects through Add
PVCIndexOf(store) ==
  [v \in NodeKeys |-> {Key(o) : o \in {x \in store : v \in Range(pvcByNodeIndexFunc(x))}}]
PodIndexOf(store) ==
  [v \in ClaimKeys |-> {Key(o) : o \in {x \in store : v \in Range(podByPvcIndexFunc(x))}}]

(***************************************************************************)
(* The notifications of the PVC informer and of the pod informer alone:    *)
(* any add, update and delete, of any object of a small universe.          *)
(***************************************************************************)
NotifiedPVCs ==
  {PVC(k[1], k[2], prov, node, "") :
     k \in {<<"a", "c1">>, <<"b", "c1">>, <<"a", "c2">>},
     prov \in ProvisionerValues, node \in NodeKeys}
NotifiedPods ==
  {Pod(ns, "p1", volumes) :
     ns \in Namespaces, volumes \in SeqsUpTo(VolumeEntries, MaxVolumes)}

NotScanned == [done |-> FALSE, pvcs |-> {}, nodes |-> {}, pods |-> {}]

\* the part of the state the informers' notifications leave alone
NotStarted ==
  /\ variant = "indexed"
  /\ informer = SyncedInformers("indexed")
  /\ apiNodes = {} /\ apiPVC = {} /\ apiPV = {} /\ apiPod = {}
  /\ nodeWatch = <<>> /\ nodeStore = {} /\ pending = <<>>
  /\ pc = [t \in Threads |-> "start"]
  /\ todo = [t \in Threads |-> {}]
  /\ cur = [t \in Threads |-> NoPVC]
  /\ pods = [t \in Threads |-> {}]
  /\ pvTodo = {}
  /\ log = [t \in Threads |-> <<>>]
  /\ inv = <<>>
  /\ listed = {}
  /\ scanned = NotScanned
  /\ nodeOps = 0 /\ failures = 0
  /\ alive = TRUE

InitIndex ==
  /\ NotStarted
  /\ pvcStore = {} /\ pvcIndex = EmptyIndex(NodeKeys)
  /\ podStore = {} /\ podIndex = EmptyIndex(ClaimKeys)

restOfPVC == <<variant, informer, apiVars, nodeVars, podStore, podIndex, threadVars, envVars, alive>>
restOfPod == <<variant, informer, apiVars, nodeVars, pvcStore, pvcIndex, threadVars, envVars, alive>>

OnPVCAdd == \E obj \in NotifiedPVCs : PVCStoreAdd(obj) /\ UNCHANGED restOfPVC
OnPVCUpdate ==
  \E old \in pvcStore, new \in NotifiedPVCs : PVCStoreUpdate(old, new) /\ UNCHANGED restOfPVC
OnPVCDelete == \E old \in pvcStore : PVCStoreDelete(old) /\ UNCHANGED restOfPVC

OnPodAdd == \E obj \in NotifiedPods : PodStoreAdd(obj) /\ UNCHANGED restOfPod
OnPodUpdate ==
  \E old \in podStore, new \in NotifiedPods : PodStoreUpdate(old, new) /\ UNCHANGED restOfPod
OnPodDelete == \E old \in podStore : PodStoreDelete(old) /\ UNCHANGED restOfPod

NextPvcIndex == OnPVCAdd \/ OnPVCUpdate \/ OnPVCDelete
NextPodIndex == OnPodAdd \/ OnPodUpdate \/ OnPodDelete

SpecPvcIndex == InitIndex /\ [][NextPvcIndex]_vars
SpecPodIndex == InitIndex /\ [][NextPodIndex]_vars

\* lookup(n) on pvcByNode, lookup(c) on podByPvc
LookupPVCs(n) == ByIndex(pvcStore, pvcIndex, n)
LookupPods(c) == ByIndex(podStore, podIndex, c)

\* C5: after any sequence of PVC add/update/delete notifications, the lookup of a
\* node name n on the PVC-by-node index returns exactly the PVCs of the snapshot
\* whose provisioner annotation is the expected value and whose selected-node
\* annotation is n: nothing stale, nothing missing, each PVC under one key only.
C5_PvcIndexExact ==
  /\ \A n \in NodeKeys :
       LookupPVCs(n) =
         {o \in pvcStore : o.prov = expectedProvisionerValue /\ o.node = n}
  /\ \A n \in NodeKeys : pvcIndex[n] \subseteq Keys(pvcStore)
  /\ \A n, m \in NodeKeys : n # m => pvcIndex[n] \cap pvcIndex[m] = {}

\* the case of C5: an update moved an in-scope PVC from one node to another, beside
\* a PVC of another provisioner selected for the same node
C5_Witness ==
  /\ PVC("a", "c1", expectedProvisionerValue, "n2", "") \in pvcStore
  /\ PVC("b", "c1", OtherProvisioner, "n2", "") \in pvcStore
  /\ PVC("a", "c2", expectedProvisionerValue, "n1", "") \in pvcStore
  /\ LookupPVCs("n2") = {PVC("a", "c1", expectedProvisionerValue, "n2", "")}

\* C6: after any sequence of pod add/update/delete notifications, the lookup of a
\* non-empty claim name c on the Pod-by-PVC index returns exactly the pods of the
\* snapshot that have a volume entry naming claim c, each pod once.
C6_PodIndexExact ==
  /\ \A c \in ClaimNames :
       LookupPods(c) =
         {p \in podStore :
            \E i \in 1..Len(p.volumes) :
              p.volumes[i].pvc /\ p.volumes[i].claimName = c}
  /\ \A c \in ClaimKeys : podIndex[c] \subseteq Keys(podStore)
  /\ podIndex[""] = {}

\* the case of C6: a pod naming c1 in two volume entries, another pod whose first
\* volume is no claim and whose second names c1
C6_Witness ==
  /\ Pod("a", "p1", <<Volume(TRUE, "c1"), Volume(TRUE, "c1")>>) \in podStore
  /\ Pod("b", "p1", <<Volume(FALSE, ""), Volume(TRUE, "c1")>>) \in podStore
  /\ Cardinality(LookupPods("c1")) = 2

(***************************************************************************)
(* The controller at work. Init is the state when WaitForCacheSync has     *)
(* returned with the informers' stores equal to the cluster. The cluster   *)
(* holds three PVCs, their PVs and two pods: a/c1 and a/c2 of the expected *)
(* provisioner, b/c1 of another one and selected for n1 as well; pod a/p1  *)
(* mounts a/c1 and a/c2, pod b/p1 mounts b/c1. Drawn: whether a/c1 is      *)
(* bound, the provisioner annotation of its PV, the node of a/c2, and      *)
(* whether n1 was deleted while the controller was down.                   *)
(***************************************************************************)
Claim1(vol) == PVC("a", "c1", expectedProvisionerValue, "n1", vol)
Claim2(node) == PVC("a", "c2", expectedProvisionerValue, node, "pv2")
Claim3 == PVC("b", "c1", OtherProvisioner, "n1", "pv3")
Pod1 == Pod("a", "p1", <<Volume(TRUE, "c1"), Volume(TRUE, "c2")>>)
Pod2 == Pod("b", "p1", <<Volume(FALSE, ""), Volume(TRUE, "c1")>>)

Init ==
  /\ variant \in {"indexed", "pvscan"}
  /\ informer = SyncedInformers(variant)
  /\ apiNodes \in {Nodes, {"n2"}}
  /\ \E vol1 \in {"pv1", ""},
        pvProv \in {expectedProvisionerValue, OtherProvisioner},
        node2 \in Nodes :
       /\ vol1 = "" => pvProv = expectedProvisionerValue
       /\ apiPVC = {Claim1(vol1), Claim2(node2), Claim3}
       /\ apiPV = {PV("pv1", pvProv, "n1", vol1 # "", "a", "c1"),
                   PV("pv2", expectedProvisionerValue, node2, TRUE, "a", "c2"),
                   PV("pv3", expectedProvisionerValue, "n1", TRUE, "b", "c1")}
  /\ apiPod = {Pod1, Pod2}
  /\ nodeWatch = <<>>
  /\ nodeStore = apiNodes
  /\ pending = <<>>
  \* part_000 starts the node informer only
  /\ pvcStore = IF variant = "indexed" THEN apiPVC ELSE {}
  /\ pvcIndex = PVCIndexOf(pvcStore)
  /\ podStore = IF variant = "indexed" THEN apiPod ELSE {}
  /\ podIndex = PodIndexOf(podStore)
  /\ pc = [t \in Threads |->
             IF t = "handler" THEN "idle"
             ELSE IF variant = "indexed" THEN "list" ELSE "wait"]
  /\ todo = [t \in Threads |-> {}]
  /\ cur = [t \in Threads |-> NoPVC]
  /\ pods = [t \in Threads |-> {}]
  /\ pvTodo = {}
  /\ log = [t \in Threads |-> <<>>]
  /\ inv = <<>>
  /\ listed = {}
  /\ scanned = NotScanned
  /\ nodeOps = 0
  /\ failures = 0
  /\ alive = TRUE

(***************************************************************************)
(* The cluster: node n1 is deleted and created again, here once the        *)
(* startup pass of main is over (n2 stays); a delete call removes the      *)
(* object, or fails because the object is absent, or fails transiently.    *)
(***************************************************************************)
StartupOver == pc["main"] = "wait"

EnvDeleteNode ==
  /\ StartupOver
  /\ nodeOps < MaxNodeOps
  /\ \E n \in apiNodes \cap ChurnNodes :
       /\ apiNodes' = apiNodes \ {n}
       /\ nodeWatch' = Append(nodeWatch, [type |-> "DELETED", name |-> n])
  /\ nodeOps' = nodeOps + 1
  /\ UNCHANGED <<variant, informer, apiPVC, apiPV, apiPod, nodeStore, pending, indexVars,
                 threadVars, failures, alive>>

EnvCreateNode ==
  /\ StartupOver
  /\ nodeOps < MaxNodeOps
  /\ \E n \in ChurnNodes \ apiNodes :
       /\ apiNodes' = apiNodes \cup {n}
       /\ nodeWatch' = Append(nodeWatch, [type |-> "ADDED", name |-> n])
  /\ nodeOps' = nodeOps + 1
  /\ UNCHANGED <<variant, informer, apiPVC, apiPV, apiPod, nodeStore, pending, indexVars,
                 threadVars, failures, alive>>

\* what a Delete of `key` can answer: ok, or an error (not found, or transient)
Outcomes(api, key) ==
  IF key \in Keys(api)
  THEN {[ok |-> TRUE, transient |-> FALSE]} \cup
       (IF failures < MaxFailures THEN {[ok |-> FALSE, transient |-> TRUE]} ELSE {})
  ELSE {[ok |-> FALSE, transient |-> FALSE]}
AfterDelete(api, key, r) == IF r.ok THEN {o \in api : Key(o) # key} ELSE api
Counted(r) == failures + (IF r.transient THEN 1 ELSE 0)

\* whether the object a delete names is, in the cluster, of the expected provisioner
ScopeOf(api, key) ==
  IF key \notin Keys(api) THEN "absent"
  ELSE IF (CHOOSE o \in api : Key(o) = key).prov = expectedProvisionerValue
       THEN "in" ELSE "out"

(***************************************************************************)
(* The informers: the node informer takes the node events in order and     *)
(* hands a deleted node to the handler's queue; the PVC and pod informers  *)
(* take the deletions of the cluster into their stores and indices.        *)
(***************************************************************************)
NodeInformer ==
  /\ nodeWatch # <<>>
  /\ LET e == Head(nodeWatch)
     IN /\ nodeStore' = IF e.type = "DELETED" THEN nodeStore \ {e.name}
                        ELSE nodeStore \cup {e.name}
        /\ pending' = IF e.type = "DELETED" /\ e.name \in nodeStore
                      THEN Append(pending, e.name) ELSE pending
  /\ nodeWatch' = Tail(nodeWatch)
  /\ UNCHANGED <<variant, informer, apiVars, indexVars, threadVars, envVars, alive>>

PVCInformer ==
  /\ \E old \in pvcStore : Key(old) \notin Keys(apiPVC) /\ PVCStoreDelete(old)
  /\ UNCHANGED restOfPVC

PodInformer ==
  /\ \E old \in podStore : Key(old) \notin Keys(apiPod) /\ PodStoreDelete(old)
  /\ UNCHANGED restOfPod

(***************************************************************************)
(* deleteVolumes(pvc), main.go:28-66, one action per call it makes.        *)
(***************************************************************************)
CurInv(t) == IF t = "handler" THEN Len(inv) ELSE 0
LogEntry(t, op, key, ok, scope) ==
  [inv |-> CurInv(t), claim |-> Key(cur[t]), vol |-> cur[t].vol, op |-> op,
   key |-> key, ok |-> ok, scope |-> scope]

\* a failed delete is printed and never panicked on
deleteErrorPanicsYes == TRUE
deleteErrorPanics == FALSE

\* the control flow of deleteVolumes: where it goes after the step `at`; `ok` is
\* err == nil, `more` is pvName != "" after the PVC delete and "the range has an
\* element left" in the pod loop
deleteVolumesFlowPVFirst(at, ok, more) ==
  CASE at = "entry" -> "delPV"
    [] at = "delPV" -> IF ~ok THEN "ret" ELSE "delPVC"
    [] at = "delPVC" -> IF ~ok THEN "ret" ELSE "listPods"
    [] at = "listPods" -> IF more THEN "delPod" ELSE "ret"
    [] at = "delPod" -> IF more THEN "delPod" ELSE "ret"
deleteVolumesFlowPodBreak(at, ok, more) ==
  CASE at = "entry" -> "delPVC"
    [] at = "delPVC" -> IF ~ok THEN "ret" ELSE IF ~more THEN "ret" ELSE "delPV"
    [] at = "delPV" -> IF ~ok THEN "ret" ELSE "listPods"
    [] at = "listPods" -> IF more THEN "delPod" ELSE "ret"
    [] at = "delPod" -> IF ok /\ more THEN "delPod" ELSE "ret"
deleteVolumesFlow(at, ok, more) ==
  CASE at = "entry" -> "delPVC"
    [] at = "delPVC" -> IF ~ok THEN "ret" ELSE IF ~more THEN "ret" ELSE "delPV"
    [] at = "delPV" -> IF ~ok THEN "ret" ELSE "listPods"
    [] at = "listPods" -> IF more THEN "delPod" ELSE "ret"
    [] at = "delPod" -> IF more THEN "delPod" ELSE "ret"

\* the range loops of cleanupVolumesByNode and of cleanupPVCsForNode go on with the
\* elements left, whatever the delete answered
remainingStopOnError(rest, ok) == IF ok THEN rest ELSE {}
remaining(rest, ok) == rest

\* go to `label`; returning from deleteVolumes leads back to the caller's loop
Goto(t, label) ==
  IF label = "ret"
  THEN /\ pc' = [pc EXCEPT ![t] = "loop"]
       /\ cur' = [cur EXCEPT ![t] = NoPVC]
  ELSE /\ pc' = [pc EXCEPT ![t] = label]
       /\ cur' = cur

DeletePVC(t) ==
  /\ alive
  /\ pc[t] = "delPVC"
  /\ \E r \in Outcomes(apiPVC, Key(cur[t])) :
       /\ apiPVC' = AfterDelete(apiPVC, Key(cur[t]), r)
       /\ failures' = Counted(r)
       /\ log' = [log EXCEPT ![t] =
                    Append(@, LogEntry(t, "pvc", Key(cur[t]), r.ok,
                                       ScopeOf(apiPVC, Key(cur[t]))))]
       /\ alive' = ~(~r.ok /\ deleteErrorPanics)
       /\ todo' = [todo EXCEPT ![t] = remaining(@, r.ok)]
       /\ Goto(t, deleteVolumesFlow("delPVC", r.ok, cur[t].vol # ""))
  /\ UNCHANGED <<variant, informer, apiNodes, apiPV, apiPod, nodeVars, indexVars, pods, pvTodo,
                 inv, listed, scanned, nodeOps>>

DeletePV(t) ==
  /\ alive
  /\ pc[t] = "delPV"
  /\ LET key == <<"", cur[t].vol>>
     IN \E r \in Outcomes(apiPV, key) :
          /\ apiPV' = AfterDelete(apiPV, key, r)
          /\ failures' = Counted(r)
          /\ log' = [log EXCEPT ![t] =
                       Append(@, LogEntry(t, "pv", key, r.ok, ScopeOf(apiPV, key)))]
          /\ alive' = ~(~r.ok /\ deleteErrorPanics)
          /\ Goto(t, deleteVolumesFlow("delPV", r.ok, TRUE))
  /\ UNCHANGED <<variant, informer, apiNodes, apiPVC, apiPod, nodeVars, indexVars, todo, pods,
                 pvTodo, inv, listed, scanned, nodeOps>>

\* ByIndex(podByPvcIndex, pvc.Name): the lookup is by the claim's name alone
ListPods(t) ==
  /\ alive
  /\ pc[t] = "listPods"
  /\ LET found == ByIndex(podStore, podIndex, cur[t].name)
     IN /\ pods' = [pods EXCEPT ![t] = found]
        /\ listed' = listed \cup
             {[thread |-> t, inv |-> CurInv(t), claim |-> Key(cur[t]),
               pods |-> Keys(found)]}
        /\ Goto(t, deleteVolumesFlow("listPods", TRUE, found # {}))
  /\ UNCHANGED <<variant, informer, apiVars, nodeVars, indexVars, todo, pvTodo, log, inv,
                 scanned, envVars, alive>>

DeletePod(t) ==
  /\ alive
  /\ pc[t] = "delPod"
  /\ \E pod \in pods[t] :
       \E r \in Outcomes(apiPod, Key(pod)) :
         /\ apiPod' = AfterDelete(apiPod, Key(pod), r)
         /\ failures' = Counted(r)
         /\ log' = [log EXCEPT ![t] =
                      Append(@, LogEntry(t, "pod", Key(pod), r.ok, "pod"))]
         /\ alive' = ~(~r.ok /\ deleteErrorPanics)
         /\ pods' = [pods EXCEPT ![t] =
                       IF deleteVolumesFlow("delPod", r.ok, pods[t] # {pod}) = "ret"
                       THEN {} ELSE @ \ {pod}]
         /\ Goto(t, deleteVolumesFlow("delPod", r.ok, pods[t] # {pod}))
  /\ UNCHANGED <<variant, informer, apiNodes, apiPVC, apiPV, nodeVars, indexVars, todo, pvTodo,
                 inv, listed, scanned, nodeOps>>

deleteVolumes ==
  \E t \in Threads : DeletePVC(t) \/ DeletePV(t) \/ ListPods(t) \/ DeletePod(t)

(***************************************************************************)
(* The node informer's DeleteFunc, run by the handler's one goroutine for  *)
(* one deleted node after the other, and the two cleanups it calls.        *)
(***************************************************************************)
PodNamesClaim(pod, name) ==
  \E i \in 1..Len(pod.volumes) : pod.volumes[i].pvc /\ pod.volumes[i].claimName = name

\* the deletes one cleanup of node n goes for, as <<kind, key>>, in the snapshot it
\* starts from: the indexed variant reads the informers' stores, the PV scan the
\* cluster's PVs
TargetsOf(n) ==
  IF variant = "indexed"
  THEN LET S == {o \in pvcStore : o.prov = expectedProvisionerValue /\ o.node = n}
       IN {<<"pvc", Key(o)>> : o \in S}
          \cup {<<"pv", <<"", o.vol>>>> : o \in {x \in S : x.vol # ""}}
          \cup {<<"pod", Key(p)>> :
                  p \in {x \in podStore : \E o \in S : PodNamesClaim(x, o.name)}}
  ELSE {<<"pvc", <<pv.refNs, pv.refName>>>> :
          pv \in {x \in apiPV : /\ x.node = n
                                /\ x.prov = expectedProvisionerValue
                                /\ x.hasRef}}

\* the PVCs the PV scan resolves for node n: the claimRef of each matching PV
ScanResolves(pvs, n) ==
  {<<pv.refNs, pv.refName>> :
     pv \in {x \in pvs : x.node = n /\ x.prov = expectedProvisionerValue /\ x.hasRef}}

\* what is recorded of a callback when it starts: the node, the in-scope PVCs the
\* cluster anchors to it (with their PVs and the pods naming them in their
\* namespace), the targets of one cleanup, and the PVCs it resolved (the PV scan
\* resolves them when its List returns)
Started(n) ==
  LET S == {o \in apiPVC : o.prov = expectedProvisionerValue /\ o.node = n}
  IN [node |-> n,
      claims |-> Keys(S),
      volumes |-> {<<"", o.vol>> : o \in {x \in S : x.vol # ""}},
      pods |-> Keys({p \in apiPod :
                       \E o \in S : p.ns = o.ns /\ PodNamesClaim(p, o.name)}),
      targets |-> TargetsOf(n),
      resolved |-> IF variant = "indexed"
                   THEN Keys(ByIndex(pvcStore, pvcIndex, n)) ELSE {},
      \* how the listing of the cleanup went: ByIndex on the registered index
      \* answers at once and without error, the List of the PV scan is yet to come
      list |-> IF variant = "indexed" THEN "ok" ELSE "none"]

\* DeleteFunc of main.go and cleanupVolumesByNode's lookup on pvcByNode
DeleteFunc ==
  /\ alive
  /\ variant = "indexed"
  /\ pc["handler"] = "idle"
  /\ pending # <<>>
  /\ pending' = Tail(pending)
  /\ inv' = Append(inv, Started(Head(pending)))
  /\ todo' = [todo EXCEPT !["handler"] = ByIndex(pvcStore, pvcIndex, Head(pending))]
  /\ pc' = [pc EXCEPT !["handler"] = "loop"]
  /\ UNCHANGED <<variant, informer, apiVars, nodeWatch, nodeStore, indexVars, cur, pods, pvTodo,
                 log, listed, scanned, envVars, alive>>

\* the range loop of cleanupVolumesByNode: ByIndex gives the PVCs in no fixed order
cleanupVolumesByNode ==
  /\ alive
  /\ pc["handler"] = "loop"
  /\ IF todo["handler"] = {}
     THEN /\ pc' = [pc EXCEPT !["handler"] = "idle"]
          /\ UNCHANGED <<todo, cur>>
     ELSE \E pvc \in todo["handler"] :
            /\ todo' = [todo EXCEPT !["handler"] = @ \ {pvc}]
            /\ cur' = [cur EXCEPT !["handler"] = pvc]
            /\ pc' = [pc EXCEPT !["handler"] = deleteVolumesFlow("entry", TRUE, TRUE)]
  /\ UNCHANGED <<variant, informer, apiVars, nodeVars, indexVars, pods, pvTodo, log, inv,
                 listed, scanned, envVars, alive>>

\* DeleteFunc of part_000
DeleteFuncScan ==
  /\ alive
  /\ variant = "pvscan"
  /\ pc["handler"] = "idle"
  /\ pending # <<>>
  /\ pending' = Tail(pending)
  /\ inv' = Append(inv, Started(Head(pending)))
  /\ pc' = [pc EXCEPT !["handler"] = "listPVs"]
  /\ UNCHANGED <<variant, informer, apiVars, nodeWatch, nodeStore, indexVars, todo, cur, pods,
                 pvTodo, log, listed, scanned, envVars, alive>>

\* a failed List is printed and returned from, never panicked on
listErrorPanicsYes == TRUE
listErrorPanics == FALSE

\* cleanupPVCsForNode: the List of the cluster's PVs, which may fail
cleanupPVCsForNodeList ==
  /\ alive
  /\ pc["handler"] = "listPVs"
  /\ \/ /\ pvTodo' = apiPV
        /\ pc' = [pc EXCEPT !["handler"] = "pvLoop"]
        /\ inv' = [inv EXCEPT ![Len(inv)].resolved =
                                ScanResolves(apiPV, inv[Len(inv)].node),
                              ![Len(inv)].list = "ok"]
        /\ UNCHANGED <<failures, alive>>
     \/ /\ failures < MaxFailures
        /\ failures' = failures + 1
        /\ pc' = [pc EXCEPT !["handler"] = "idle"]
        /\ inv' = [inv EXCEPT ![Len(inv)].list = "error"]
        /\ alive' = ~listErrorPanics
        /\ UNCHANGED pvTodo
  /\ UNCHANGED <<variant, informer, apiVars, nodeVars, indexVars, todo, cur, pods, log,
                 listed, scanned, nodeOps>>

\* cleanupPVCsForNode: one PV of the range loop
cleanupPVCsForNode ==
  /\ alive
  /\ pc["handler"] = "pvLoop"
  /\ IF pvTodo = {}
     THEN /\ pc' = [pc EXCEPT !["handler"] = "idle"]
          /\ UNCHANGED <<pvTodo, apiPVC, log, failures, alive>>
     ELSE \E pv \in pvTodo :
            IF \/ pv.node # inv[Len(inv)].node
               \/ pv.prov # expectedProvisionerValue
               \/ ~pv.hasRef
            THEN /\ pvTodo' = pvTodo \ {pv}
                 /\ UNCHANGED <<pc, apiPVC, log, failures, alive>>
            ELSE LET key == <<pv.refNs, pv.refName>>
                 IN \E r \in Outcomes(apiPVC, key) :
                      /\ apiPVC' = AfterDelete(apiPVC, key, r)
                      /\ failures' = Counted(r)
                      /\ log' = [log EXCEPT !["handler"] =
                                   Append(@, [inv |-> Len(inv), claim |-> key,
                                              vol |-> pv.name, op |-> "pvc",
                                              key |-> key, ok |-> r.ok,
                                              scope |-> ScopeOf(apiPVC, key)])]
                      /\ alive' = ~(~r.ok /\ deleteErrorPanics)
                      /\ pvTodo' = remaining(pvTodo \ {pv}, r.ok)
                      /\ UNCHANGED pc
  /\ UNCHANGED <<variant, informer, apiNodes, apiPV, apiPod, nodeVars, indexVars, todo, cur,
                 pods, inv, listed, scanned, nodeOps>>

(***************************************************************************)
(* The startup pass of main (main.go:147-167), once WaitForCacheSync is    *)
(* back: the PVCs of the store, each checked against the node store.       *)
(***************************************************************************)
reconcileList ==
  /\ alive
  /\ pc["main"] = "list"
  /\ todo' = [todo EXCEPT !["main"] = pvcStore]
  /\ scanned' = [done |-> TRUE, pvcs |-> pvcStore, nodes |-> nodeStore,
                 pods |-> podStore]
  /\ pc' = [pc EXCEPT !["main"] = "loop"]
  /\ UNCHANGED <<variant, informer, apiVars, nodeVars, indexVars, cur, pods, pvTodo, log, inv,
                 listed, envVars, alive>>

reconcile ==
  /\ alive
  /\ pc["main"] = "loop"
  /\ IF todo["main"] = {}
     THEN /\ pc' = [pc EXCEPT !["main"] = "wait"]
          /\ UNCHANGED <<todo, cur>>
     ELSE \E pvc \in todo["main"] :
            /\ todo' = [todo EXCEPT !["main"] = @ \ {pvc}]
            /\ IF pvc.prov # expectedProvisionerValue
               THEN UNCHANGED <<pc, cur>>
               ELSE IF pvc.node \in nodeStore
               THEN UNCHANGED <<pc, cur>>
               ELSE /\ cur' = [cur EXCEPT !["main"] = pvc]
                    /\ pc' = [pc EXCEPT !["main"] =
                                deleteVolumesFlow("entry", TRUE, TRUE)]
  /\ UNCHANGED <<variant, informer, apiVars, nodeVars, indexVars, pods, pvTodo, log, inv,
                 listed, scanned, envVars, alive>>

Next ==
  \/ EnvDeleteNode
  \/ EnvCreateNode
  \/ NodeInformer
  \/ PVCInformer
  \/ PodInformer
  \/ DeleteFunc
  \/ cleanupVolumesByNode
  \/ DeleteFuncScan
  \/ cleanupPVCsForNodeList
  \/ cleanupPVCsForNode
  \/ reconcileList
  \/ reconcile
  \/ deleteVolumes

Spec == Init /\ [][Next]_vars

(***************************************************************************)
(* What the claims speak of, read off the logs.                            *)
(***************************************************************************)
InDeleteVolumes(t) == pc[t] \in {"delPVC", "delPV", "listPods", "delPod"}
\* the callback i of the handler has returned
Returned(i) == i < Len(inv) \/ pc["handler"] = "idle"
\* the deleteVolumes call of thread t for `claim` in callback i (0: the startup
\* pass) has returned
CallOver(t, i, claim) == ~(InDeleteVolumes(t) /\ CurInv(t) = i /\ Key(cur[t]) = claim)
\* the positions of thread t's log that hold a delete of `op` for `key` by callback i
Deletes(t, i, op, key) ==
  {k \in 1..Len(log[t]) :
     log[t][k].inv = i /\ log[t][k].op = op /\ log[t][k].key = key}
EntriesOf(t, i) == {k \in 1..Len(log[t]) : log[t][k].inv = i}

\* C1: a cleanup started by a node deletion never issues a delete for a PVC or a
\* PV whose own provisioner annotation, in the cluster, is not the expected value.
C1_ScopeSafety ==
  \A k \in 1..Len(log["handler"]) :
    log["handler"][k].op \in {"pvc", "pv"} => log["handler"][k].scope # "out"

\* C2: when every delete call of one cleanup of node n (cleanupVolumesByNode) has
\* succeeded, the cleanup has issued exactly one delete for each in-scope PVC
\* anchored to n, exactly one for each PV they are bound to, exactly one for each
\* pod that names one of them in its namespace, and no other delete.
C2_CleanupComplete ==
  \A i \in 1..Len(inv) :
    (/\ variant = "indexed"
     /\ Returned(i)
     /\ \A k \in EntriesOf("handler", i) : log["handler"][k].ok) =>
      /\ \A key \in inv[i].claims : Cardinality(Deletes("handler", i, "pvc", key)) = 1
      /\ \A key \in inv[i].volumes : Cardinality(Deletes("handler", i, "pv", key)) = 1
      /\ \A key \in inv[i].pods : Cardinality(Deletes("handler", i, "pod", key)) = 1
      /\ \A k \in EntriesOf("handler", i) :
           LET e == log["handler"][k]
           IN \/ e.op = "pvc" /\ e.key \in inv[i].claims
              \/ e.op = "pv" /\ e.key \in inv[i].volumes
              \/ e.op = "pod" /\ e.key \in inv[i].pods

\* C3: once the startup pass is over, every delete call of it having succeeded,
\* every in-scope PVC of the snapshot whose anchor node is not in the node
\* snapshot got exactly one delete, its bound PV exactly one and each pod naming
\* it in its namespace exactly one; for a PVC whose anchor node is in the node
\* snapshot the pass issued no delete for the PVC, its PV or its pods.
C3_StartupConvergence ==
  (/\ scanned.done
   /\ pc["main"] = "wait"
   /\ \A k \in 1..Len(log["main"]) : log["main"][k].ok) =>
    \A o \in scanned.pvcs :
      o.prov = expectedProvisionerValue =>
        LET mine == {p \in scanned.pods : p.ns = o.ns /\ PodNamesClaim(p, o.name)}
            n(op, key) == Cardinality(Deletes("main", 0, op, key))
        IN IF o.node \notin scanned.nodes
           THEN /\ n("pvc", Key(o)) = 1
                /\ o.vol # "" => n("pv", <<"", o.vol>>) = 1
                /\ \A p \in mine : n("pod", Key(p)) = 1
           ELSE /\ n("pvc", Key(o)) = 0
                /\ o.vol # "" => n("pv", <<"", o.vol>>) = 0
                /\ \A p \in mine : n("pod", Key(p)) = 0

\* C4: a cleanup of node n that follows an earlier cleanup of n issues no delete
\* for an object the earlier one did not go for, and no failed delete (an object
\* already absent included) stops the process.
C4_Idempotent ==
  /\ alive
  /\ \A k \in 1..Len(log["handler"]) :
       LET e == log["handler"][k]
       IN \A i \in 1..(e.inv - 1) :
            inv[i].node = inv[e.inv].node => <<e.op, e.key>> \in inv[i].targets

\* the case of C4: the second cleanup of a node has deleted an object that was
\* already absent, has gone on, and has returned
C4_Witness ==
  /\ Len(inv) = 2
  /\ inv[1].node = inv[2].node
  /\ Returned(2)
  /\ \E k \in EntriesOf("handler", 2) :
       /\ ~log["handler"][k].ok
       /\ log["handler"][k].scope = "absent"
       /\ \E j \in EntriesOf("handler", 2) : j > k

\* C7: within one deleteVolumes call, a PV delete comes after the delete of the
\* call's PVC, and a pod delete after the PV delete (so after the PVC delete).
C7_DeleteOrder ==
  \A t \in Threads :
    \A k \in 1..Len(log[t]) :
      LET e == log[t][k]
          Before(op) ==
            \E j \in 1..(k - 1) :
              /\ log[t][j].inv = e.inv
              /\ log[t][j].claim = e.claim
              /\ log[t][j].op = op
      IN /\ e.op = "pvc" => e.key = e.claim
         /\ e.op = "pv" => Before("pvc")
         /\ e.op = "pod" => Before("pvc") /\ Before("pv")

\* the case of C7: one call has deleted its PVC, its PV and a pod
C7_Witness ==
  \E t \in Threads :
    \E i, j, k \in 1..Len(log[t]) :
      /\ i < j /\ j < k
      /\ log[t][i].op = "pvc" /\ log[t][j].op = "pv" /\ log[t][k].op = "pod"
      /\ log[t][i].inv = log[t][k].inv /\ log[t][j].inv = log[t][k].inv
      /\ log[t][i].claim = log[t][k].claim /\ log[t][j].claim = log[t][k].claim

\* C8: a deleteVolumes call whose PVC delete failed has, when it returns, still
\* issued the delete of the bound PV and of each pod naming the claim; one whose
\* PV delete failed has still issued the delete of each pod naming the claim.
C8_BestEffort ==
  \A t \in Threads :
    \A k \in 1..Len(log[t]) :
      LET e == log[t][k]
          Later(op, key) ==
            \E j \in (k + 1)..Len(log[t]) :
              /\ log[t][j].inv = e.inv
              /\ log[t][j].claim = e.claim
              /\ log[t][j].op = op
              /\ log[t][j].key = key
      IN (variant = "indexed" /\ ~e.ok /\ CallOver(t, e.inv, e.claim)) =>
           /\ (e.op = "pvc" /\ e.vol # "") => Later("pv", <<"", e.vol>>)
           /\ e.op \in {"pvc", "pv"} =>
                \A p \in apiPod :
                  (p.ns = e.claim[1] /\ PodNamesClaim(p, e.claim[2])) =>
                    Later("pod", Key(p))

\* C9: when a cleanup has returned, it has issued the delete of every PVC it
\* resolved for the node, also of those that came after a PVC whose delete failed
\* (indexed: the PVCs of the lookup; PV scan: the claimRef of every matching PV).
C9_FailureIsolation ==
  \A i \in 1..Len(inv) :
    Returned(i) =>
      \A key \in inv[i].resolved : Deletes("handler", i, "pvc", key) # {}

\* the case of C9: in a cleanup that has returned, the delete of one PVC failed and
\* the delete of another PVC followed
C9_Witness ==
  \E i \in 1..Len(inv) :
    /\ Returned(i)
    /\ \E k, j \in EntriesOf("handler", i) :
         /\ k < j
         /\ log["handler"][k].op = "pvc" /\ ~log["handler"][k].ok
         /\ log["handler"][j].op = "pvc"
         /\ log["handler"][j].key # log["handler"][k].key

\* C10: when a deleteVolumes call has returned, it has issued a delete for every
\* pod its lookup on podByPvc returned, also for those that came after a pod whose
\* delete failed.
C10_PodsIndependent ==
  \A l \in listed :
    CallOver(l.thread, l.inv, l.claim) =>
      \A p \in l.pods : \E k \in Deletes(l.thread, l.inv, "pod", p) :
        log[l.thread][k].claim = l.claim

\* the case of C10: in a call that has returned, a pod delete failed and the delete
\* of another pod of the lookup followed
C10_Witness ==
  \E l \in listed :
    /\ CallOver(l.thread, l.inv, l.claim)
    /\ \E k, j \in EntriesOf(l.thread, l.inv) :
         /\ k < j
         /\ log[l.thread][k].claim = l.claim /\ log[l.thread][j].claim = l.claim
         /\ log[l.thread][k].op = "pod" /\ ~log[l.thread][k].ok
         /\ log[l.thread][j].op = "pod"
         /\ log[l.thread][j].key # log[l.thread][k].key

(***************************************************************************)
(* The start of the program: factory.Start runs the informers, each makes  *)
(* its initial List of the cluster and takes the items into its store one  *)
(* by one; HasSynced is true of an informer once the last item is in.      *)
(* WaitForCacheSync polls HasSynced of every started informer and returns  *)
(* early only when stopCh is closed, which main does after the signal, at  *)
(* its very end. The cluster here also holds an unanchored a/c2.           *)
(***************************************************************************)
InitSync ==
  /\ variant \in {"indexed", "pvscan"}
  /\ informer = [k \in Kinds |-> NotListed]
  /\ apiNodes \in {Nodes, {"n2"}}
  /\ \E vol1 \in {"pv1", ""}, node2 \in NodeKeys :
       /\ apiPVC = {Claim1(vol1), Claim2(node2), Claim3}
       /\ apiPV = {PV("pv1", expectedProvisionerValue, "n1", vol1 # "", "a", "c1"),
                   PV("pv2", expectedProvisionerValue, node2, TRUE, "a", "c2"),
                   PV("pv3", expectedProvisionerValue, "n1", TRUE, "b", "c1")}
  /\ apiPod = {Pod1, Pod2}
  /\ nodeWatch = <<>>
  /\ nodeStore = {}
  /\ pending = <<>>
  /\ pvcStore = {} /\ pvcIndex = EmptyIndex(NodeKeys)
  /\ podStore = {} /\ podIndex = EmptyIndex(ClaimKeys)
  /\ pc = [t \in Threads |-> IF t = "handler" THEN "idle" ELSE "sync"]
  /\ todo = [t \in Threads |-> {}]
  /\ cur = [t \in Threads |-> NoPVC]
  /\ pods = [t \in Threads |-> {}]
  /\ pvTodo = {}
  /\ log = [t \in Threads |-> <<>>]
  /\ inv = <<>>
  /\ listed = {}
  /\ scanned = NotScanned
  /\ nodeOps = 0
  /\ failures = 0
  /\ alive = TRUE

\* the initial List of a started informer (one that fails is made again)
InformerList ==
  /\ \E k \in StartedKinds(variant) :
       /\ ~informer[k].listed
       /\ informer' = [informer EXCEPT ![k] =
                         [listed |-> TRUE,
                          queue |-> CASE k = "node" -> apiNodes
                                      [] k = "pvc" -> apiPVC
                                      [] k = "pod" -> apiPod]]
  /\ UNCHANGED <<variant, apiVars, nodeVars, indexVars, threadVars, envVars, alive>>

\* one item of an initial list reaches the informer's store and indices
InformerPop ==
  /\ \E k \in Kinds :
       \E x \in informer[k].queue :
         /\ informer' = [informer EXCEPT ![k].queue = @ \ {x}]
         /\ CASE k = "node" -> /\ nodeStore' = nodeStore \cup {x}
                               /\ UNCHANGED indexVars
              [] k = "pvc" -> /\ PVCStoreAdd(x)
                              /\ UNCHANGED <<nodeStore, podStore, podIndex>>
              [] k = "pod" -> /\ PodStoreAdd(x)
                              /\ UNCHANGED <<nodeStore, pvcStore, pvcIndex>>
  /\ UNCHANGED <<variant, apiVars, nodeWatch, pending, threadVars, envVars, alive>>

HasSynced(k) == informer[k].listed /\ informer[k].queue = {}

\* when factory.WaitForCacheSync(stopCh) returns: stopCh is open, so when every
\* started informer has synced
WaitForCacheSyncReturnsUnsynced == TRUE
WaitForCacheSyncReturns == \A k \in StartedKinds(variant) : HasSynced(k)

\* main.go:145 and part_000:80; part_000 goes on to wait for the signal
WaitForCacheSync ==
  /\ pc["main"] = "sync"
  /\ WaitForCacheSyncReturns
  /\ pc' = [pc EXCEPT !["main"] = IF variant = "indexed" THEN "list" ELSE "wait"]
  /\ UNCHANGED <<variant, informer, apiVars, nodeVars, indexVars, todo, cur, pods,
                 pvTodo, log, inv, listed, scanned, envVars, alive>>

NextSync ==
  \/ InformerList
  \/ InformerPop
  \/ WaitForCacheSync
  \/ reconcileList
  \/ reconcile
  \/ deleteVolumes
  \/ PVCInformer
  \/ PodInformer

SpecSync == InitSync /\ [][NextSync]_vars

\* C11: the startup pass does not begin before the node informer and the PVC
\* informer have synced: while one of them has not, main has listed nothing and
\* deleted nothing; the snapshot the pass takes holds every node and every PVC of
\* the cluster, so every PVC the pass deletes is anchored to a node that is not
\* in the cluster; and the pass is made once: its snapshot is taken once, and
\* main waits for the signal only after it.
C11_GateState ==
  /\ (\E k \in {"node", "pvc"} : ~HasSynced(k)) =>
       (pc["main"] = "sync" \/ variant = "pvscan") /\ ~scanned.done /\ log["main"] = <<>>
  /\ scanned.done =>
       /\ scanned.nodes = apiNodes
       /\ Keys(apiPVC) \subseteq Keys(scanned.pvcs)
  /\ \A k \in 1..Len(log["main"]) :
       log["main"][k].op = "pvc" =>
         \E o \in scanned.pvcs : Key(o) = log["main"][k].key /\ o.node \notin apiNodes
  /\ (variant = "indexed" /\ pc["main"] = "wait") => scanned.done
C11_SyncGate ==
  /\ []C11_GateState
  /\ [][scanned.done => scanned' = scanned]_vars

\* the case of C11: the informers synced item by item, the pass was made and has
\* deleted the PVC of a node that is gone
C11_Witness ==
  /\ variant = "indexed"
  /\ pc["main"] = "wait"
  /\ scanned.done
  /\ \E k \in 1..Len(log["main"]) : log["main"][k].op = "pvc" /\ log["main"][k].ok

(***************************************************************************)
(* A burst of node deletions: the startup pass is over (it found every     *)
(* node), and the cluster deletes n1 and n2, in any order and at any time. *)
(* The node informer calls DeleteFunc from its one handler goroutine: the  *)
(* next notification is handed over when the callback before has returned. *)
(***************************************************************************)
InitBurst ==
  /\ variant \in {"indexed", "pvscan"}
  /\ informer = SyncedInformers(variant)
  /\ apiNodes = Nodes
  /\ \E vol1 \in {"pv1", ""}, node2 \in Nodes :
       /\ apiPVC = {Claim1(vol1), Claim2(node2), Claim3}
       /\ apiPV = {PV("pv1", expectedProvisionerValue, "n1", vol1 # "", "a", "c1"),
                   PV("pv2", expectedProvisionerValue, node2, TRUE, "a", "c2"),
                   PV("pv3", expectedProvisionerValue, "n1", TRUE, "b", "c1")}
  /\ apiPod = {Pod1, Pod2}
  /\ nodeWatch = <<>>
  /\ nodeStore = apiNodes
  /\ pending = <<>>
  /\ pvcStore = IF variant = "indexed" THEN apiPVC ELSE {}
  /\ pvcIndex = PVCIndexOf(pvcStore)
  /\ podStore = IF variant = "indexed" THEN apiPod ELSE {}
  /\ podIndex = PodIndexOf(podStore)
  /\ pc = [t \in Threads |-> IF t = "handler" THEN "idle" ELSE "wait"]
  /\ todo = [t \in Threads |-> {}]
  /\ cur = [t \in Threads |-> NoPVC]
  /\ pods = [t \in Threads |-> {}]
  /\ pvTodo = {}
  /\ log = [t \in Threads |-> <<>>]
  /\ inv = <<>>
  /\ listed = {}
  /\ scanned = IF variant = "indexed"
               THEN [done |-> TRUE, pvcs |-> pvcStore, nodes |-> nodeStore,
                     pods |-> podStore]
               ELSE NotScanned
  /\ nodeOps = 0
  /\ failures = 0
  /\ alive = TRUE

EnvDeleteNodeBurst ==
  /\ \E n \in apiNodes :
       /\ apiNodes' = apiNodes \ {n}
       /\ nodeWatch' = Append(nodeWatch, [type |-> "DELETED", name |-> n])
  /\ nodeOps' = nodeOps + 1
  /\ UNCHANGED <<variant, informer, apiPVC, apiPV, apiPod, nodeStore, pending, indexVars,
                 threadVars, failures, alive>>

NextBurst ==
  \/ EnvDeleteNodeBurst
  \/ NodeInformer
  \/ PVCInformer
  \/ PodInformer
  \/ DeleteFunc
  \/ cleanupVolumesByNode
  \/ DeleteFuncScan
  \/ cleanupPVCsForNodeList
  \/ cleanupPVCsForNode
  \/ deleteVolumes

SpecBurst == InitBurst /\ [][NextBurst]_vars

\* the running callback is at a delete call: deleteVolumes at one of its three
\* Delete calls, cleanupPVCsForNode with a matching PV still to go
DeleteInFlight ==
  \/ pc["handler"] \in {"delPVC", "delPV", "delPod"}
  \/ /\ pc["handler"] = "pvLoop"
     /\ \E pv \in pvTodo :
          /\ pv.node = inv[Len(inv)].node
          /\ pv.prov = expectedProvisionerValue
          /\ pv.hasRef

\* C12: while the cleanup of one deleted node is at a delete call and the
\* notification of another deleted node is waiting, the cleanup of that other
\* node can start (its callback can be called).
C12_NonBlocking ==
  (/\ DeleteInFlight
   /\ pending # <<>>
   /\ Head(pending) # inv[Len(inv)].node) =>
    ENABLED (DeleteFunc \/ DeleteFuncScan)

\* C13: when a cleanup that has returned issued a delete for an in-scope PVC
\* bound to a PV (the delete went through, so the PVC existed), and that PV
\* existed then (it is still in the cluster, or this cleanup deleted it), the
\* same cleanup issued a delete for the PV.
C13_PairedDeletes ==
  \A k \in 1..Len(log["handler"]) :
    LET e == log["handler"][k]
        pv == <<"", e.vol>>
    IN (/\ e.op = "pvc"
        /\ e.ok
        /\ e.scope = "in"
        /\ e.vol # ""
        /\ Returned(e.inv)
        /\ \/ pv \in Keys(apiPV)
           \/ \E j \in Deletes("handler", e.inv, "pv", pv) : log["handler"][j].ok) =>
         Deletes("handler", e.inv, "pv", pv) # {}

\* C14: every pod a deleteVolumes call for PVC (ns, name) deletes is a pod of
\* namespace ns that has a volume naming the claim `name`.
C14_PodNamespace ==
  \A t \in Threads :
    \A k \in 1..Len(log[t]) :
      LET e == log[t][k]
      IN (e.op = "pod" /\ e.ok) =>
           /\ e.key[1] = e.claim[1]
           /\ \E p \in {Pod1, Pod2} : Key(p) = e.key /\ PodNamesClaim(p, e.claim[2])

\* C15: an in-scope PVC whose selected-node annotation is absent or empty (here
\* a/c2, when the startup pass found it so) is deleted neither by the startup
\* pass nor by the cleanup of a node.
C15_UnanchoredKept ==
  \A o \in scanned.pvcs :
    (o.prov = expectedProvisionerValue /\ o.node = "") =>
      \A t \in Threads :
        \A k \in 1..Len(log[t]) :
          ~(log[t][k].op = "pvc" /\ log[t][k].key = Key(o) /\ log[t][k].ok)

\* C16: a deleteVolumes call for a PVC with an empty Spec.VolumeName whose PVC
\* delete succeeded has, when it returns, issued no PV delete and a delete for
\* every pod of the PVC's namespace that names the claim.
C16_UnboundPods ==
  \A t \in Threads :
    \A k \in 1..Len(log[t]) :
      LET e == log[t][k]
          mine == {j \in (k + 1)..Len(log[t]) :
                     log[t][j].inv = e.inv /\ log[t][j].claim = e.claim}
      IN (/\ variant = "indexed"
          /\ e.op = "pvc" /\ e.ok /\ e.vol = ""
          /\ CallOver(t, e.inv, e.claim)) =>
           /\ \A j \in mine : log[t][j].op # "pv"
           /\ \A p \in apiPod :
                (p.ns = e.claim[1] /\ PodNamesClaim(p, e.claim[2])) =>
                  \E j \in mine : log[t][j].op = "pod" /\ log[t][j].key = Key(p)

(***************************************************************************)
(* A node deleted while the startup pass runs (main.go): the pass has      *)
(* listed the PVCs and is in its loop when the cluster deletes n1, so the  *)
(* pass, which reads the node store at each PVC, and the DeleteFunc for n1 *)
(* may both call deleteVolumes for the same PVC. No call fails but for an  *)
(* object that is gone.                                                    *)
(***************************************************************************)
InitRace ==
  /\ variant = "indexed"
  /\ informer = SyncedInformers(variant)
  /\ apiNodes = Nodes
  /\ \E vol1 \in {"pv1", ""},
        pvProv \in {expectedProvisionerValue, OtherProvisioner},
        node2 \in Nodes :
       /\ vol1 = "" => pvProv = expectedProvisionerValue
       /\ apiPVC = {Claim1(vol1), Claim2(node2), Claim3}
       /\ apiPV = {PV("pv1", pvProv, "n1", vol1 # "", "a", "c1"),
                   PV("pv2", expectedProvisionerValue, node2, TRUE, "a", "c2"),
                   PV("pv3", expectedProvisionerValue, "n1", TRUE, "b", "c1")}
  /\ apiPod = {Pod1, Pod2}
  /\ nodeWatch = <<>>
  /\ nodeStore = apiNodes
  /\ pending = <<>>
  /\ pvcStore = apiPVC
  /\ pvcIndex = PVCIndexOf(pvcStore)
  /\ podStore = apiPod
  /\ podIndex = PodIndexOf(podStore)
  /\ pc = [t \in Threads |-> IF t = "handler" THEN "idle" ELSE "list"]
  /\ todo = [t \in Threads |-> {}]
  /\ cur = [t \in Threads |-> NoPVC]
  /\ pods = [t \in Threads |-> {}]
  /\ pvTodo = {}
  /\ log = [t \in Threads |-> <<>>]
  /\ inv = <<>>
  /\ listed = {}
  /\ scanned = NotScanned
  /\ nodeOps = 0
  /\ failures = MaxFailures
  /\ alive = TRUE

StartupRunning == scanned.done /\ pc["main"] # "wait"

EnvDeleteNodeAtStartup ==
  /\ StartupRunning
  /\ \E n \in apiNodes \cap ChurnNodes :
       /\ apiNodes' = apiNodes \ {n}
       /\ nodeWatch' = Append(nodeWatch, [type |-> "DELETED", name |-> n])
  /\ nodeOps' = nodeOps + 1
  /\ UNCHANGED <<variant, informer, apiPVC, apiPV, apiPod, nodeStore, pending, indexVars,
                 threadVars, failures, alive>>

NextRace ==
  \/ EnvDeleteNodeAtStartup
  \/ NodeInformer
  \/ PVCInformer
  \/ PodInformer
  \/ DeleteFunc
  \/ cleanupVolumesByNode
  \/ reconcileList
  \/ reconcile
  \/ deleteVolumes

SpecRace == InitRace /\ [][NextRace]_vars

\* both paths are through: the pass is over, the callback has returned and no
\* notification is left
RaceOver ==
  /\ pc["main"] = "wait"
  /\ pc["handler"] = "idle"
  /\ nodeWatch = <<>>
  /\ pending = <<>>

\* the cluster one cleanup of node n alone leaves, of the cluster the pass
\* found: the in-scope PVCs anchored to n are gone, the PVs of the bound ones,
\* and the pods the lookup by the name of a bound one returns
AloneLeaves(n) ==
  LET S == {o \in scanned.pvcs : o.prov = expectedProvisionerValue /\ o.node = n}
      B == {o \in S : o.vol # ""}
  IN [pvcs |-> scanned.pvcs \ S,
      pvs |-> {"pv1", "pv2", "pv3"} \ {o.vol : o \in B},
      pods |-> {p \in scanned.pods : ~\E o \in B : PodNamesClaim(p, o.name)}]

\* the first part of C17: whatever the interleaving, the cluster at the end is
\* the one a single cleanup of the deleted node leaves
C17_SameFinalState ==
  (RaceOver /\ "n1" \notin apiNodes) =>
    /\ apiPVC = AloneLeaves("n1").pvcs
    /\ {pv.name : pv \in apiPV} = AloneLeaves("n1").pvs
    /\ apiPod = AloneLeaves("n1").pods

\* the case of C17: the pass and the callback both issued the delete of one PVC
C17_BothActed ==
  /\ RaceOver
  /\ \E k \in 1..Len(log["main"]), j \in 1..Len(log["handler"]) :
       /\ log["main"][k].op = "pvc" /\ log["handler"][j].op = "pvc"
       /\ log["main"][k].key = log["handler"][j].key

\* C17: when a node is deleted while the startup pass runs, in every
\* interleaving of the pass and the node's callback the cluster at the end is
\* the one a single cleanup leaves, no PVC or PV whose own provisioner annotation
\* is not the expected value is deleted, and the process does not panic.
C17_RaceSafe ==
  /\ C17_SameFinalState
  /\ alive
  /\ \A t \in Threads :
       \A k \in 1..Len(log[t]) :
         (log[t][k].op \in {"pvc", "pv"} /\ log[t][k].ok) => log[t][k].scope # "out"

\* C18: a cleanup whose listing failed (the List of the PVs answered an error)
\* has returned without a single delete and the process runs on: a waiting
\* notification can be handed to the callback, and a later cleanup whose listing
\* went through has, when it returns, issued the delete of every PVC it resolved.
C18_ListFailure ==
  \A i \in 1..Len(inv) :
    inv[i].list = "error" =>
      /\ Returned(i)
      /\ EntriesOf("handler", i) = {}
      /\ alive
      /\ (pc["handler"] = "idle" /\ pending # <<>>) => ENABLED (DeleteFunc \/ DeleteFuncScan)
      /\ \A j \in (i + 1)..Len(inv) :
           (inv[j].list = "ok" /\ Returned(j)) =>
             \A key \in inv[j].resolved : Deletes("handler", j, "pvc", key) # {}

\* the case of C18: the List of one cleanup failed, and a later cleanup listed the
\* PVs, deleted a PVC and returned
C18_Witness ==
  \E i, j \in 1..Len(inv) :
    /\ i < j
    /\ inv[i].list = "error"
    /\ inv[j].list = "ok"
    /\ Returned(j)
    /\ \E k \in EntriesOf("handler", j) :
         log["handler"][k].op = "pvc" /\ log["handler"][k].ok

(***************************************************************************)
(* A PVC created shortly before its node is deleted (main.go): the startup *)
(* pass is over, the cluster creates a/c1 for n1 (selected, not yet bound) *)
(* while n1 exists, and deletes n1; the PVC informer takes the add into    *)
(* its store whenever the notification arrives. Every delete of an         *)
(* existing object succeeds.                                               *)
(***************************************************************************)
InitLate ==
  /\ variant = "indexed"
  /\ informer = SyncedInformers(variant)
  /\ apiNodes = Nodes
  /\ \E node2 \in Nodes :
       /\ apiPVC = {Claim2(node2), Claim3}
       /\ apiPV = {PV("pv2", expectedProvisionerValue, node2, TRUE, "a", "c2"),
                   PV("pv3", expectedProvisionerValue, "n1", TRUE, "b", "c1")}
  /\ apiPod = {Pod1, Pod2}
  /\ nodeWatch = <<>>
  /\ nodeStore = apiNodes
  /\ pending = <<>>
  /\ pvcStore = apiPVC
  /\ pvcIndex = PVCIndexOf(pvcStore)
  /\ podStore = apiPod
  /\ podIndex = PodIndexOf(podStore)
  /\ pc = [t \in Threads |-> IF t = "handler" THEN "idle" ELSE "wait"]
  /\ todo = [t \in Threads |-> {}]
  /\ cur = [t \in Threads |-> NoPVC]
  /\ pods = [t \in Threads |-> {}]
  /\ pvTodo = {}
  /\ log = [t \in Threads |-> <<>>]
  /\ inv = <<>>
  /\ listed = {}
  /\ scanned = [done |-> TRUE, pvcs |-> pvcStore, nodes |-> nodeStore, pods |-> podStore]
  /\ nodeOps = 0
  /\ failures = MaxFailures
  /\ alive = TRUE

\* the cluster creates PVC a/c1, selected for the node n1 that exists, and
\* either has not bound it yet or has provisioned pv1 for it
EnvCreatePVC ==
  /\ "n1" \in apiNodes
  /\ Key(Claim1("")) \notin Keys(apiPVC)
  /\ \/ /\ apiPVC' = apiPVC \cup {Claim1("")}
        /\ UNCHANGED apiPV
     \/ /\ apiPVC' = apiPVC \cup {Claim1("pv1")}
        /\ apiPV' = apiPV \cup {PV("pv1", expectedProvisionerValue, "n1", TRUE, "a", "c1")}
  /\ UNCHANGED <<variant, informer, apiNodes, apiPod, nodeVars, indexVars,
                 threadVars, envVars, alive>>

\* the add notification of a PVC reaches the PVC informer's store and index
PVCInformerAdd ==
  /\ \E obj \in apiPVC : PVCStoreAdd(obj)
  /\ UNCHANGED restOfPVC

NextLate ==
  \/ EnvCreatePVC
  \/ EnvDeleteNode
  \/ NodeInformer
  \/ PVCInformerAdd
  \/ PVCInformer
  \/ PodInformer
  \/ DeleteFunc
  \/ cleanupVolumesByNode
  \/ deleteVolumes

SpecLate == InitLate /\ [][NextLate]_vars

\* every notification has arrived and the handler has nothing left to do: no
\* step of the controller is left
Settled ==
  /\ nodeWatch = <<>>
  /\ pending = <<>>
  /\ pc["handler"] = "idle"
  /\ Keys(pvcStore) = Keys(apiPVC)
  /\ Keys(podStore) = Keys(apiPod)

\* C19: once a node deleted while the controller runs has been dealt with (all
\* notifications delivered, every delete having succeeded, the handler idle), no
\* in-scope PVC anchored to that node is left in the cluster, a PVC whose add
\* notification came after the lookup of the node's callback included.
C19_Converges ==
  \A n \in Nodes :
    (Settled /\ n \notin apiNodes) =>
      ~\E o \in apiPVC : o.prov = expectedProvisionerValue /\ o.node = n

====
